---- MODULE Spec2Model ----
(***************************************************************************)
(* Model of steam_sunshine_scanner.py: the VDF parser (parse_vdf), the     *)
(* library resolver (get_library_folders), the record extractor            *)
(* (scan_games / parse_manifest) and the merge engine (load_apps,          *)
(* add_games, save_apps).                                                  *)
(*                                                                         *)
(* Python strings are sequences of one-character strings; a Python value   *)
(* that may be None, a str or a dict is a tagged record (None, PyStr,      *)
(* PyDict), so that values of different Python types can be compared.      *)
(***************************************************************************)
EXTENDS Integers, Sequences, FiniteSets, TLC

VARIABLES
    \* ---- parse_vdf ----
    content,        \* text of the file being parsed, or ReadError
    lines,          \* content.split('\n')
    li,             \* index of the next line of the for loop
    heap,           \* the dict objects created so far; heap[1] is `result`
    stack,          \* `stack`: references (heap indices) of the open sections
    current_key,    \* `current_key`: None or a str
    ppc,            \* position in parse_vdf: "idle", "open", "loop", "done"
    tree,           \* history: the tree the text was written from, or None
    \* ---- get_library_folders ----
    steam_path,     \* self.steam_path: None or a str
    custom_paths,   \* self.custom_paths: sequence of str
    fs_exists,      \* the paths for which os.path.exists is true
    vdf_file,       \* libraryfolders.vdf: NoFile, ReadError or its text
    library_folders,\* self.library_folders
    rpc,            \* "idle", "done" or "raised"
    \* ---- scan_games ----
    steamapps,      \* per folder: NoFile, or the appmanifest_*.acf files of
                    \* its steamapps directory in os.listdir order
    fo,             \* index of the next folder of the outer for loop
    manifest_files, \* `manifest_files` of the folder being scanned
    fi,             \* index of the next file of the inner for loop
    found,          \* `games` of scan_games
    spc,            \* "idle", "folders", "files", "done" or "raised"
    \* ---- add_games ----
    disk,           \* the apps.json file: NoFile, Corrupt or a config
    config,         \* `config` of add_games
    existing_names, \* `existing_names`
    games,          \* the argument `games`
    enable_vd,      \* the argument `enable_virtual_display`
    gi,             \* index of the next game of the for loop
    added,          \* `added`
    mpc,            \* "idle", "load", "loop", "save", "done" or "raised"
    loaded,         \* history: config['apps'] right after load_apps
    calls,          \* history: number of add_games calls started
    reads,          \* history: times this call opened apps.json for reading
    writes,         \* history: times this call opened apps.json for writing
    load_kind,      \* history: what load_apps found on disk ("none" before)
    save_result,    \* history: how save_apps ended ("none": not called)
    \* ---- main ----
    mainpc          \* position in main: "none" (main is not running),
                    \* "start", "resolve", "scan", "add", "returned", "raised"

pvars == <<content, lines, li, heap, stack, current_key, ppc, tree>>
rvars == <<steam_path, custom_paths, fs_exists, vdf_file, library_folders, rpc>>
svars == <<steamapps, fo, manifest_files, fi, found, spc>>
mvars == <<disk, config, existing_names, games, enable_vd, gi, added, mpc,
           loaded, calls, reads, writes, load_kind, save_result, mainpc>>
vars == <<pvars, rvars, svars, mvars>>

----------------------------------------------------------------------------
(* Bounds of the model *)

MaxLines == 4          \* lines of a text handed to the parser
MaxTreeDepth == 1      \* nesting below the root of a written tree
MaxFiles == 3          \* manifest files in a library directory
MaxBatch == 2          \* discovered records of one add_games call
MaxCalls == 2          \* add_games calls of one history
MaxCustom == 2         \* explicit library paths
MaxWrites == 6         \* lines of a text that writes one key repeatedly

----------------------------------------------------------------------------
(* Python values *)

None == [t |-> "none"]
PyStr(s) == [t |-> "str", s |-> s]
PyDict(items) == [t |-> "dict", items |-> items]
Ref(id) == [t |-> "ref", id |-> id]
NoFile == [t |-> "nofile"]
ReadError == [t |-> "readerror"]
Corrupt == [t |-> "corrupt"]
Dir(files) == [t |-> "dir", files |-> files]

IsStr(v) == v.t = "str"
IsDict(v) == v.t = "dict"

\* truth value of a Python object in a condition
Truthy(v) ==
    CASE v.t = "none" -> FALSE
      [] v.t = "str" -> v.s # <<>>
      [] v.t = "dict" -> v.items # <<>>
      [] OTHER -> TRUE

Q == "\""
TAB == "\t"
NL == "\n"
BSL == "\\"
Whitespace == {" ", TAB, NL, "\r"}

\* characters of a Python string literal
Str(s) ==
    CASE s = "" -> <<>>
      [] s = "a" -> <<"a">>
      [] s = "v" -> <<"v">>
      [] s = "{" -> <<"{">>
      [] s = "}" -> <<"}">>
      [] s = "//" -> <<"/", "/">>
      [] s = "path" -> <<"p", "a", "t", "h">>
      [] s = "name" -> <<"n", "a", "m", "e">>
      [] s = "appid" -> <<"a", "p", "p", "i", "d">>
      [] s = "installdir" -> <<"i", "n", "s", "t", "a", "l", "l", "d", "i", "r">>
      [] s = "AppState" -> <<"A", "p", "p", "S", "t", "a", "t", "e">>
      [] s = "libraryfolders" ->
            <<"l", "i", "b", "r", "a", "r", "y", "f", "o", "l", "d", "e", "r", "s">>
      [] s = "Unknown" -> <<"U", "n", "k", "n", "o", "w", "n">>
      [] s = "steam://rungameid/" ->
            <<"s", "t", "e", "a", "m", ":", "/", "/", "r", "u", "n", "g", "a",
              "m", "e", "i", "d", "/">>

RECURSIVE Join(_, _)
\* sep.join(parts)
Join(parts, sep) ==
    IF parts = <<>> THEN <<>>
    ELSE IF Len(parts) = 1 THEN parts[1]
    ELSE parts[1] \o sep \o Join(Tail(parts), sep)

----------------------------------------------------------------------------
(* dict operations; a dict is the sequence of its items in insertion order *)

Keys(items) == {items[i].k : i \in 1..Len(items)}
HasKey(items, k) == k \in Keys(items)
IndexOf(items, k) == CHOOSE i \in 1..Len(items) : items[i].k = k
GetItem(items, k) == items[IndexOf(items, k)].v
GetOr(items, k, default) == IF HasKey(items, k) THEN GetItem(items, k) ELSE default
\* d[k] = v: an existing key keeps its position and gets the new value
SetItem(items, k, v) ==
    IF HasKey(items, k)
    THEN [items EXCEPT ![IndexOf(items, k)] = [k |-> k, v |-> v]]
    ELSE Append(items, [k |-> k, v |-> v])

----------------------------------------------------------------------------
(* parse_vdf *)

RECURSIVE Split(_)
\* content.split('\n')
Split(s) ==
    IF \A i \in 1..Len(s) : s[i] # NL THEN <<s>>
    ELSE LET i == CHOOSE j \in 1..Len(s) :
                      s[j] = NL /\ \A m \in 1..(j - 1) : s[m] # NL
         IN <<SubSeq(s, 1, i - 1)>> \o Split(SubSeq(s, i + 1, Len(s)))

\* line.strip()
Strip(s) ==
    IF \A i \in 1..Len(s) : s[i] \in Whitespace THEN <<>>
    ELSE LET a == CHOOSE i \in 1..Len(s) :
                      s[i] \notin Whitespace /\ \A m \in 1..(i - 1) : s[m] \in Whitespace
             b == CHOOSE i \in 1..Len(s) :
                      s[i] \notin Whitespace /\ \A m \in (i + 1)..Len(s) : s[m] \in Whitespace
         IN SubSeq(s, a, b)

\* line.startswith('//')
StartsWithComment(s) == Len(s) >= 2 /\ s[1] = "/" /\ s[2] = "/"

FirstQuote(s) == CHOOSE i \in 1..Len(s) : s[i] = Q /\ \A m \in 1..(i - 1) : s[m] # Q
HasQuote(s) == \E i \in 1..Len(s) : s[i] = Q

RECURSIVE FindAll(_)
\* re.findall(r'"([^"]*)"', line)
FindAll(s) ==
    IF ~HasQuote(s) THEN <<>>
    ELSE LET rest == SubSeq(s, FirstQuote(s) + 1, Len(s))
         IN IF ~HasQuote(rest) THEN <<>>
            ELSE <<SubSeq(rest, 1, FirstQuote(rest) - 1)>>
                     \o FindAll(SubSeq(rest, FirstQuote(rest) + 1, Len(rest)))

Top(st) == st.stack[Len(st.stack)]

\* mutant: a key that is already in the section keeps its first value
StorePair_KeepFirst(st, key, value) ==
    IF HasKey(st.heap[Top(st)], key) THEN st
    ELSE [st EXCEPT !.heap[Top(st)] = SetItem(@, key, PyStr(value))]

\* line 78: stack[-1][key] = value
StorePair(st, key, value) ==
    [st EXCEPT !.heap[Top(st)] = SetItem(@, key, PyStr(value))]

\* mutant: a section opened under a key that already holds a section is the
\* old section, reopened with its contents
OpenSection_Reopen(st) ==
    LET key == st.current_key.s
        top == st.heap[Top(st)]
    IN IF HasKey(top, key) /\ GetItem(top, key).t = "ref"
       THEN [heap |-> st.heap,
             stack |-> Append(st.stack, GetItem(top, key).id),
             current_key |-> None]
       ELSE LET new == Len(st.heap) + 1
            IN [heap |-> Append([st.heap EXCEPT ![Top(st)] =
                                    SetItem(@, key, Ref(new))],
                                <<>>),
                stack |-> Append(st.stack, new),
                current_key |-> None]

\* lines 58-62: new_dict = {}; stack[-1][current_key] = new_dict;
\* stack.append(new_dict); current_key = None
OpenSection(st) ==
    LET new == Len(st.heap) + 1
    IN [heap |-> Append([st.heap EXCEPT ![Top(st)] =
                            SetItem(@, st.current_key.s, Ref(new))],
                        <<>>),
        stack |-> Append(st.stack, new),
        current_key |-> None]

\* mutant: a closing brace pops whatever the depth
CloseBrace_Always(st) ==
    [st EXCEPT !.stack = SubSeq(@, 1, Len(@) - 1)]

\* lines 66-67: if len(stack) > 1: stack.pop()
CloseBrace(st) ==
    IF Len(st.stack) > 1
    THEN [st EXCEPT !.stack = SubSeq(@, 1, Len(@) - 1)]
    ELSE st

\* the body of `for line in lines`, on the parser state st
LineStep(st, raw) ==
    LET line == Strip(raw)
        matches == FindAll(line)
    IN  IF line = <<>> \/ StartsWithComment(line) THEN st
        ELSE IF line = Str("{") THEN
            IF Truthy(st.current_key) /\ Len(st.stack) > 0
            THEN OpenSection(st)
            ELSE st
        ELSE IF line = Str("}") THEN CloseBrace(st)
        ELSE IF Len(matches) = 2 THEN
            IF Len(st.stack) > 0
            THEN StorePair(st, matches[1], matches[2])
            ELSE st
        ELSE IF Len(matches) = 1 THEN
            [st EXCEPT !.current_key = PyStr(matches[1])]
        ELSE st

\* result = {}; stack = [result]; current_key = None
ParserStart == [heap |-> << <<>> >>, stack |-> <<1>>, current_key |-> None]

RECURSIVE Freeze(_, _)
\* the value of the dict object heap[id], references followed
Freeze(h, id) ==
    PyDict([i \in 1..Len(h[id]) |->
              [k |-> h[id][i].k,
               v |-> IF h[id][i].v.t = "ref" THEN Freeze(h, h[id][i].v.id)
                     ELSE h[id][i].v]])

RECURSIVE RunLines(_, _)
RunLines(st, ls) ==
    IF ls = <<>> THEN st ELSE RunLines(LineStep(st, Head(ls)), Tail(ls))

\* parse_vdf as a function of the file
parse_vdf(file) ==
    IF file.t = "text"
    THEN Freeze(RunLines(ParserStart, Split(file.s)).heap, 1)
    ELSE PyDict(<<>>)

Text(s) == [t |-> "text", s |-> s]

PIdle ==
    /\ content = NoFile /\ lines = <<>> /\ li = 1
    /\ heap = <<>> /\ stack = <<>> /\ current_key = None /\ ppc = "idle"
    /\ tree = None

\* lines 37-46: the locals are set up, the file is read and split; a failing
\* read is caught by the except clause and the empty result is returned
PBegin ==
    /\ ppc = "open"
    /\ heap' = ParserStart.heap
    /\ stack' = ParserStart.stack
    /\ current_key' = ParserStart.current_key
    /\ li' = 1
    /\ IF content.t = "text"
       THEN lines' = Split(content.s) /\ ppc' = "loop"
       ELSE lines' = <<>> /\ ppc' = "done"
    /\ UNCHANGED <<content, tree, rvars, svars, mvars>>

\* lines 48-81: one iteration of the for loop
PLine ==
    /\ ppc = "loop"
    /\ li <= Len(lines)
    /\ LET st == LineStep([heap |-> heap, stack |-> stack,
                           current_key |-> current_key], lines[li])
       IN /\ heap' = st.heap
          /\ stack' = st.stack
          /\ current_key' = st.current_key
    /\ li' = li + 1
    /\ UNCHANGED <<content, lines, ppc, tree, rvars, svars, mvars>>

\* line 86: return result
PReturn ==
    /\ ppc = "loop"
    /\ li > Len(lines)
    /\ ppc' = "done"
    /\ UNCHANGED <<content, lines, li, heap, stack, current_key, tree, rvars, svars, mvars>>

\* the dict parse_vdf returns
result == Freeze(heap, 1)

\* texts in the brace-delimited format
KeyLine(k) == <<Q>> \o k \o <<Q>>
PairLine(k, v) == <<Q>> \o k \o <<Q, TAB, TAB, Q>> \o v \o <<Q>>
Section(k, ls) == <<KeyLine(k), <<"{">>>> \o ls \o << <<"}">> >>
FileOf(ls) == Text(Join(ls, <<NL>>))

----------------------------------------------------------------------------
(* get_library_folders *)

Raised(exc) == [t |-> "raised", exc |-> exc]
Ok(v) == [t |-> "ok", v |-> v]

RECURSIVE ReplaceDoubled(_)
\* s.replace('\\\\', '\\'): two backslashes become one, left to right
ReplaceDoubled(s) ==
    IF Len(s) < 2 THEN s
    ELSE IF s[1] = BSL /\ s[2] = BSL
         THEN <<BSL>> \o ReplaceDoubled(SubSeq(s, 3, Len(s)))
         ELSE <<s[1]>> \o ReplaceDoubled(Tail(s))

RECURSIVE LibraryPaths(_, _)
\* lines 110-112: the loop over data['libraryfolders'].items(), appending to
\* acc; value['path'].replace raises AttributeError when the path is a dict
LibraryPaths(items, acc) ==
    IF items = <<>> THEN Ok(acc)
    ELSE LET value == Head(items).v
         IN IF IsDict(value) /\ HasKey(value.items, Str("path"))
            THEN IF IsStr(GetItem(value.items, Str("path")))
                 THEN LibraryPaths(Tail(items),
                        Append(acc, ReplaceDoubled(GetItem(value.items, Str("path")).s)))
                 ELSE Raised("AttributeError")
            ELSE LibraryPaths(Tail(items), acc)

\* lines 95-100: the explicit paths that exist, in input order
CustomFolders(paths, exists) == SelectSeq(paths, LAMBDA p : p \in exists)

\* mutant: the default locations are scanned in addition to explicit paths
DefaultMode_Also(custom, steam) == Truthy(steam)

\* line 103: not self.custom_paths and self.steam_path
DefaultMode(custom, steam) == custom = <<>> /\ Truthy(steam)

\* lines 88-115: Ok(folders), or the exception that escapes; vdf is the
\* libraryfolders.vdf under the root (NoFile when os.path.exists is false)
get_library_folders(custom, steam, exists, vdf) ==
    LET folders == IF custom # <<>> THEN CustomFolders(custom, exists) ELSE <<>>
    IN  IF DefaultMode(custom, steam)
        THEN IF vdf # NoFile
             THEN LET data == parse_vdf(vdf).items
                  IN IF HasKey(data, Str("libraryfolders"))
                     THEN IF IsDict(GetItem(data, Str("libraryfolders")))
                          THEN LibraryPaths(GetItem(data, Str("libraryfolders")).items,
                                            Append(folders, steam.s))
                          ELSE Raised("AttributeError")
                     ELSE Ok(Append(folders, steam.s))
             ELSE Ok(Append(folders, steam.s))
        ELSE Ok(folders)

RIdle ==
    /\ steam_path = None /\ custom_paths = <<>> /\ fs_exists = {}
    /\ vdf_file = NoFile /\ library_folders = <<>> /\ rpc = "idle"

\* get_library_folders() runs; on an exception self.library_folders is not set
RResolve ==
    /\ rpc = "idle"
    /\ LET r == get_library_folders(custom_paths, steam_path, fs_exists, vdf_file)
       IN IF r.t = "ok"
          THEN library_folders' = r.v /\ rpc' = "done"
          ELSE library_folders' = library_folders /\ rpc' = "raised"
    /\ UNCHANGED <<steam_path, custom_paths, fs_exists, vdf_file, pvars, svars, mvars>>

----------------------------------------------------------------------------
(* parse_manifest, scan_games *)

RECURSIVE PyRepr(_)
RECURSIVE ReprItems(_)
\* repr() of a str or a dict (no escapes)
PyRepr(v) ==
    IF IsStr(v) THEN <<"'">> \o v.s \o <<"'">>
    ELSE <<"{">> \o ReprItems(v.items) \o <<"}">>
ReprItems(items) ==
    IF items = <<>> THEN <<>>
    ELSE <<"'">> \o Head(items).k \o <<"'", ":", " ">> \o PyRepr(Head(items).v)
            \o (IF Len(items) > 1 THEN <<",", " ">> ELSE <<>>) \o ReprItems(Tail(items))

\* f'{v}'
Format(v) == IF IsStr(v) THEN v.s ELSE PyRepr(v)

\* the dict parse_manifest builds (lines 188-193)
GameRecord(name, app_id, install_dir) ==
    [name |-> name, app_id |-> app_id, install_dir |-> install_dir,
     exe_path |-> PyStr(Str("steam://rungameid/") \o Format(app_id))]

\* lines 161-193: Ok(record), None, or the AttributeError of str.get
parse_manifest(file) ==
    LET data == parse_vdf(file).items
    IN  IF ~HasKey(data, Str("AppState")) THEN None
        ELSE LET app_state == GetItem(data, Str("AppState"))
             IN IF ~IsDict(app_state) THEN Raised("AttributeError")
                ELSE LET app_id == GetOr(app_state.items, Str("appid"), PyStr(Str("")))
                         name == GetOr(app_state.items, Str("name"), PyStr(Str("Unknown")))
                         install_dir == GetOr(app_state.items, Str("installdir"),
                                              PyStr(Str("")))
                     IN IF ~Truthy(app_id) \/ ~Truthy(name) THEN None
                        ELSE Ok(GameRecord(name, app_id, install_dir))

SIdle ==
    /\ steamapps = <<>> /\ fo = 1 /\ manifest_files = <<>> /\ fi = 1
    /\ found = <<>> /\ spc = "idle"

\* lines 119-122: games = []; get_library_folders() when the list is empty
SBegin ==
    /\ spc = "idle"
    /\ found' = <<>>
    /\ fo' = 1
    /\ IF library_folders = <<>>
       THEN LET r == get_library_folders(custom_paths, steam_path, fs_exists, vdf_file)
            IN IF r.t = "ok"
               THEN library_folders' = r.v /\ spc' = "folders"
               ELSE library_folders' = library_folders /\ spc' = "raised"
       ELSE library_folders' = library_folders /\ spc' = "folders"
    /\ UNCHANGED <<steamapps, manifest_files, fi, steam_path, custom_paths, fs_exists,
                   vdf_file, rpc, pvars, mvars>>

\* lines 127-141: the next folder; one without a steamapps directory is skipped
SFolder ==
    /\ spc = "folders"
    /\ fo <= Len(library_folders)
    /\ fo' = fo + 1
    /\ IF steamapps[library_folders[fo]] = NoFile
       THEN UNCHANGED <<manifest_files, fi, spc>>
       ELSE /\ manifest_files' = steamapps[library_folders[fo]].files
            /\ fi' = 1
            /\ spc' = "files"
    /\ UNCHANGED <<steamapps, found, rvars, pvars, mvars>>

\* lines 146-157: one manifest file; an exception of parse_manifest escapes
SFile ==
    /\ spc = "files"
    /\ fi <= Len(manifest_files)
    /\ LET game_info == parse_manifest(manifest_files[fi])
       IN CASE game_info.t = "ok" ->
                 found' = Append(found, game_info.v) /\ fi' = fi + 1 /\ spc' = spc
            [] game_info.t = "raised" ->
                 found' = found /\ fi' = fi /\ spc' = "raised"
            [] OTHER ->
                 found' = found /\ fi' = fi + 1 /\ spc' = spc
    /\ UNCHANGED <<steamapps, fo, manifest_files, rvars, pvars, mvars>>

\* the inner loop is exhausted: back to the outer loop
SFilesEnd ==
    /\ spc = "files"
    /\ fi > Len(manifest_files)
    /\ spc' = "folders"
    /\ UNCHANGED <<steamapps, fo, manifest_files, fi, found, rvars, pvars, mvars>>

\* line 159: return games
SReturn ==
    /\ spc = "folders"
    /\ fo > Len(library_folders)
    /\ spc' = "done"
    /\ UNCHANGED <<steamapps, fo, manifest_files, fi, found, rvars, pvars, mvars>>

----------------------------------------------------------------------------
(* load_apps, add_games, save_apps *)

PyTrue == [t |-> "bool", b |-> TRUE]

\* mutant: the virtual-display flag is set whatever the argument says
apollo_app_AlwaysVd(game, vd) ==
    [name |-> game.name,
     output |-> PyStr(Str("")),
     cmd |-> PyStr(Str("")),
     detached |-> <<game.exe_path>>,
     image_path |-> PyStr(Str("")),
     virtual_display |-> PyTrue]

\* lines 277-288: the entry built for a game
apollo_app(game, vd) ==
    [name |-> game.name,
     output |-> PyStr(Str("")),
     cmd |-> PyStr(Str("")),
     detached |-> <<game.exe_path>>,
     image_path |-> PyStr(Str("")),
     virtual_display |-> IF vd THEN PyTrue ELSE None]

\* a JSON document whose root object may lack the "apps" key
Json(hasApps, apps) == [t |-> "json", hasApps |-> hasApps, apps |-> apps]

\* lines 220-235: what load_apps returns for the file on disk
load_apps(file) ==
    IF file.t = "json" THEN file ELSE Json(TRUE, <<>>)

\* line 267: app.get('name', '') for every app (None: the entry has no name)
ExistingNames(apps) ==
    {IF apps[i].name = None THEN PyStr(Str("")) ELSE apps[i].name : i \in 1..Len(apps)}

\* mutant: the membership test looks at the identifier, not at the name
MergeGame_ById(st, names, game, vd) ==
    IF game.app_id \notin names
    THEN [apps |-> Append(st.apps, apollo_app(game, vd)), added |-> st.added + 1]
    ELSE st

\* mutant: a rediscovered name gets its launch reference refreshed
MergeGame_Refresh(st, names, game, vd) ==
    IF game.name \notin names
    THEN [apps |-> Append(st.apps, apollo_app(game, vd)), added |-> st.added + 1]
    ELSE [st EXCEPT !.apps =
            [i \in 1..Len(st.apps) |->
                IF st.apps[i].name = game.name
                THEN [st.apps[i] EXCEPT !.detached = <<game.exe_path>>]
                ELSE st.apps[i]]]

\* lines 276-296: one iteration of `for game in games` on [apps, added];
\* names is existing_names, which the loop never extends
MergeGame(st, names, game, vd) ==
    IF game.name \notin names
    THEN [apps |-> Append(st.apps, apollo_app(game, vd)), added |-> st.added + 1]
    ELSE st

RECURSIVE MergeAll(_, _, _, _)
MergeAll(st, names, gs, vd) ==
    IF gs = <<>> THEN st
    ELSE MergeAll(MergeGame(st, names, Head(gs), vd), names, Tail(gs), vd)

\* lines 262-296 as a function: the entries and the count add_games ends with
merge(apps, gs, vd) ==
    MergeAll([apps |-> apps, added |-> 0], ExistingNames(apps), gs, vd)

MIdle ==
    /\ disk = NoFile /\ config = Json(TRUE, <<>>) /\ existing_names = {}
    /\ games = <<>> /\ enable_vd = TRUE /\ gi = 1 /\ added = 0
    /\ mpc = "idle" /\ loaded = <<>> /\ calls = 0
    /\ reads = 0 /\ writes = 0 /\ load_kind = "none" /\ save_result = "none"
    /\ mainpc = "none"

NameA == PyStr(<<"A">>)
NameB == PyStr(<<"B">>)
Id1 == PyStr(<<"1">>)
Id2 == PyStr(<<"2">>)
Custom == PyStr(<<"c">>)

\* the records a scan can hand to add_games
GameSamples ==
    {GameRecord(NameA, Id1, PyStr(Str(""))),
     GameRecord(NameA, Id2, PyStr(Str(""))),
     GameRecord(NameB, Id1, Custom)}

SeqsUpTo(S, n) == UNION {[1..m -> S] : m \in 0..n}

Batches == SeqsUpTo(GameSamples, MaxBatch)

\* entries a configuration file may hold before the first call: one added
\* earlier and then edited by hand, one added earlier, one without a name
EntrySamples ==
    {[apollo_app(GameRecord(NameA, Id1, PyStr(Str(""))), TRUE)
         EXCEPT !.output = Custom, !.cmd = Custom, !.image_path = Custom],
     apollo_app(GameRecord(NameB, Id2, PyStr(Str(""))), FALSE),
     [apollo_app(GameRecord(NameB, Id1, PyStr(Str(""))), FALSE) EXCEPT !.name = None]}

DistinctNames(apps) ==
    \A i, j \in 1..Len(apps) : i # j => apps[i].name # apps[j].name

InitDisks ==
    {NoFile, Corrupt, Json(FALSE, <<>>)}
        \cup {Json(TRUE, a) : a \in {b \in SeqsUpTo(EntrySamples, 2) : DistinctNames(b)}}

MInit ==
    /\ disk \in InitDisks
    /\ config = Json(TRUE, <<>>) /\ existing_names = {}
    /\ games = <<>> /\ enable_vd = TRUE /\ gi = 1 /\ added = 0
    /\ mpc = "idle" /\ loaded = <<>> /\ calls = 0
    /\ reads = 0 /\ writes = 0 /\ load_kind = "none" /\ save_result = "none"
    /\ mainpc = "none"

\* add_games(games, enable_virtual_display) is called
MCall ==
    /\ mpc \in {"idle", "done"}
    /\ calls < MaxCalls
    /\ \E gs \in Batches, vd \in BOOLEAN :
          /\ games' = gs
          /\ enable_vd' = vd
    /\ mpc' = "load"
    /\ calls' = calls + 1
    /\ reads' = 0 /\ writes' = 0 /\ load_kind' = "none" /\ save_result' = "none"
    /\ UNCHANGED <<disk, config, existing_names, gi, added, loaded, mainpc,
                   pvars, rvars, svars>>

\* lines 262-268: load_apps, the "apps" default, existing_names, added = 0;
\* load_apps (line 227) opens the file only when os.path.exists says it is there
MLoad ==
    /\ mpc = "load"
    /\ reads' = IF disk = NoFile THEN reads ELSE reads + 1
    /\ load_kind' = disk.t
    /\ LET c == load_apps(disk)
           apps == IF c.hasApps THEN c.apps ELSE <<>>
       IN /\ config' = Json(TRUE, apps)
          /\ existing_names' = ExistingNames(apps)
          /\ loaded' = apps
    /\ added' = 0
    /\ gi' = 1
    /\ mpc' = "loop"
    /\ UNCHANGED <<disk, games, enable_vd, calls, writes, save_result, mainpc,
                   pvars, rvars, svars>>

\* lines 275-296: one iteration of the for loop; a name that is a dict is
\* unhashable and `not in existing_names` raises TypeError
MGame ==
    /\ mpc = "loop"
    /\ gi <= Len(games)
    /\ IF IsDict(games[gi].name)
       THEN mpc' = "raised" /\ UNCHANGED <<config, added, gi>>
       ELSE LET st == MergeGame([apps |-> config.apps, added |-> added],
                                existing_names, games[gi], enable_vd)
            IN /\ config' = [config EXCEPT !.apps = st.apps]
               /\ added' = st.added
               /\ gi' = gi + 1
               /\ mpc' = mpc
    /\ UNCHANGED <<disk, existing_names, games, enable_vd, loaded, calls,
                   reads, writes, load_kind, save_result, mainpc,
                   pvars, rvars, svars>>

SaveOutcomes == {"ok", "makedirs_raises", "open_fails", "dump_fails"}

\* mutant: the configuration is saved after every call
ShouldSave_Always(n) == TRUE

\* line 298: if added > 0
ShouldSave(n) == n > 0

\* lines 298-305 and save_apps (237-252): os.makedirs is outside the try and
\* its error propagates; open(..., 'w') truncates the file, so a failure of
\* json.dump leaves a partial document; both are caught and reported
MSave ==
    /\ mpc = "loop"
    /\ gi > Len(games)
    /\ IF ShouldSave(added)
       THEN \E o \in SaveOutcomes :
               /\ disk' = CASE o = "ok" -> config
                             [] o = "dump_fails" -> Corrupt
                             [] OTHER -> disk
               /\ mpc' = IF o = "makedirs_raises" THEN "raised" ELSE "done"
               /\ writes' = IF o \in {"ok", "dump_fails"} THEN writes + 1 ELSE writes
               /\ save_result' = o
       ELSE disk' = disk /\ mpc' = "done" /\ UNCHANGED <<writes, save_result>>
    /\ UNCHANGED <<config, existing_names, games, enable_vd, gi, added, loaded,
                   calls, reads, load_kind, mainpc, pvars, rvars, svars>>

MNext == MCall \/ MLoad \/ MGame \/ MSave

----------------------------------------------------------------------------
(* main *)

\* mutant: main goes on to add_games with an empty list of games
NoGames_Never(gs) == FALSE

\* line 383: not games
NoGames(gs) == gs = <<>>

\* lines 361-369: the scanner is built (steam_path holds what the registry
\* lookup returned); without explicit paths and without a root main returns
MainCheckRoot ==
    /\ mainpc = "start"
    /\ IF custom_paths = <<>> /\ ~Truthy(steam_path)
       THEN mainpc' = "returned" /\ rpc' = rpc
       ELSE mainpc' = "resolve" /\ rpc' = "idle"
    /\ UNCHANGED <<steam_path, custom_paths, fs_exists, vdf_file, library_folders,
                   disk, config, existing_names, games, enable_vd, gi, added, mpc,
                   loaded, calls, reads, writes, load_kind, save_result,
                   pvars, svars>>

\* lines 371-380: get_library_folders has ended; its exception ends main, an
\* empty list makes main return, otherwise scan_games is called
MainFolders ==
    /\ mainpc = "resolve"
    /\ rpc \in {"done", "raised"}
    /\ IF rpc = "raised"
       THEN mainpc' = "raised" /\ spc' = spc
       ELSE IF library_folders = <<>>
            THEN mainpc' = "returned" /\ spc' = spc
            ELSE mainpc' = "scan" /\ spc' = "idle"
    /\ UNCHANGED <<steamapps, fo, manifest_files, fi, found,
                   disk, config, existing_names, games, enable_vd, gi, added, mpc,
                   loaded, calls, reads, writes, load_kind, save_result,
                   pvars, rvars>>

\* lines 381-397: scan_games has ended; its exception ends main, an empty
\* list makes main return, otherwise add_games(games, enable_vd) is called
\* with enable_vd = not args.no_virtual_display
MainGames ==
    /\ mainpc = "scan"
    /\ spc \in {"done", "raised"}
    /\ IF spc = "raised"
       THEN mainpc' = "raised" /\ UNCHANGED <<games, enable_vd, mpc, calls>>
       ELSE IF NoGames(found)
            THEN mainpc' = "returned" /\ UNCHANGED <<games, enable_vd, mpc, calls>>
            ELSE /\ mainpc' = "add"
                 /\ games' = found
                 /\ enable_vd' \in BOOLEAN
                 /\ mpc' = "load"
                 /\ calls' = calls + 1
    /\ UNCHANGED <<disk, config, existing_names, gi, added, loaded,
                   reads, writes, load_kind, save_result, pvars, rvars, svars>>

\* lines 397-406: add_games has ended; main prints and returns, or the
\* exception of add_games ends it
MainEnd ==
    /\ mainpc = "add"
    /\ mpc \in {"done", "raised"}
    /\ mainpc' = IF mpc = "raised" THEN "raised" ELSE "returned"
    /\ UNCHANGED <<disk, config, existing_names, games, enable_vd, gi, added, mpc,
                   loaded, calls, reads, writes, load_kind, save_result,
                   pvars, rvars, svars>>

----------------------------------------------------------------------------
(* Specifications *)

\* one line of each kind the parser distinguishes
LineSamples ==
    {<<>>,                                   \* blank
     <<"/", "/", "c">>,                      \* comment
     <<TAB, "{">>,                           \* opening brace
     <<"}">>,                                \* closing brace
     KeyLine(<<"a">>),                       \* one quoted substring
     KeyLine(<<>>),                          \* one quoted substring, empty
     <<TAB>> \o PairLine(<<"a">>, <<"v">>),  \* two quoted substrings
     PairLine(<<"a">>, <<"w">>),
     <<"x">>,                                \* no quoted substring
     PairLine(<<"a">>, <<"v">>) \o <<" ">> \o KeyLine(<<"a">>)}   \* three

ParseInputs == {FileOf(ls) : ls \in SeqsUpTo(LineSamples, MaxLines)} \cup {ReadError}

PStartWith(file, t) ==
    /\ content = file /\ lines = <<>> /\ li = 1
    /\ heap = <<>> /\ stack = <<>> /\ current_key = None /\ ppc = "open"
    /\ tree = t

PNext == PBegin \/ PLine \/ PReturn

\* parse_vdf on every text of at most MaxLines lines
InitParse == (\E f \in ParseInputs : PStartWith(f, None)) /\ RIdle /\ SIdle /\ MIdle
SpecParse == InitParse /\ [][PNext]_vars

\* ---- parse_vdf on texts that write one key again and again ----

RewriteSamples ==
    {KeyLine(<<"a">>), <<"{">>, <<"}">>,
     PairLine(<<"a">>, <<"v">>), PairLine(<<"a">>, <<"w">>)}

InitRewrite ==
    /\ \E ls \in SeqsUpTo(RewriteSamples, MaxWrites) : PStartWith(FileOf(ls), None)
    /\ RIdle /\ SIdle /\ MIdle

SpecRewrite == InitRewrite /\ [][PNext]_vars

\* add_games called repeatedly on one configuration file
InitMerge == MInit /\ PIdle /\ RIdle /\ SIdle
SpecMerge == InitMerge /\ [][MNext]_vars

\* ---- parse_vdf on the text written from a tree ----

TreeKeys == {<<>>, <<"a">>}
LeafValues == {PyStr(<<>>), PyStr(<<"v">>)}

RECURSIVE TreesOfDepth(_)
\* the sections nested at most d deep: every order of every set of keys
TreesOfDepth(d) ==
    LET vals == LeafValues \cup (IF d = 0 THEN {} ELSE TreesOfDepth(d - 1))
        keyseqs == {ks \in SeqsUpTo(TreeKeys, Cardinality(TreeKeys)) :
                       \A i, j \in 1..Len(ks) : i # j => ks[i] # ks[j]}
    IN UNION {{PyDict([i \in 1..Len(ks) |-> [k |-> ks[i], v |-> f[i]]]) :
                  f \in [1..Len(ks) -> vals]} : ks \in keyseqs}

RECURSIVE WriteItems(_)
\* the lines of a section's items: a pair on one line; a nested section as
\* key line, opening brace, contents, closing brace
WriteItems(items) ==
    IF items = <<>> THEN <<>>
    ELSE (IF IsStr(Head(items).v)
          THEN <<PairLine(Head(items).k, Head(items).v.s)>>
          ELSE Section(Head(items).k, WriteItems(Head(items).v.items)))
         \o WriteItems(Tail(items))

Fillers == {<<>>, <<" ", TAB>>, <<"/", "/", " ", Q, "a", Q>>}
InsertAt(ls, pos, l) == SubSeq(ls, 1, pos) \o <<l>> \o SubSeq(ls, pos + 1, Len(ls))

RECURSIVE PyEq(_, _)
\* a == b for values that are str or dict
PyEq(a, b) ==
    IF IsStr(a) \/ IsStr(b) THEN a = b
    ELSE /\ Keys(a.items) = Keys(b.items)
         /\ \A k \in Keys(a.items) : PyEq(GetItem(a.items, k), GetItem(b.items, k))

InitWrite ==
    /\ \E t \in TreesOfDepth(MaxTreeDepth) :
          \/ PStartWith(FileOf(WriteItems(t.items)), t)
          \/ \E pos \in 0..Len(WriteItems(t.items)), l \in Fillers :
                PStartWith(FileOf(InsertAt(WriteItems(t.items), pos, l)), t)
    /\ RIdle /\ SIdle /\ MIdle
SpecWrite == InitWrite /\ [][PNext]_vars

\* ---- get_library_folders on every root, explicit-path list and manifest ----

Root == <<"S">>
PathD == <<"D", ":", BSL, BSL, "G">>
PathDNorm == <<"D", ":", BSL, "G">>
PathE == <<"E">>
PathSamples == {Root, PathDNorm, PathE}

VdfSamples ==
    {NoFile, ReadError,
     \* two libraries
     FileOf(Section(Str("libraryfolders"),
                Section(<<"0">>, <<PairLine(Str("path"), PathD)>>)
                    \o Section(<<"1">>, <<PairLine(Str("path"), PathE)>>))),
     \* a child that is a string, a child without path, a library
     FileOf(Section(Str("libraryfolders"),
                <<PairLine(<<"c">>, <<"1">>)>>
                    \o Section(<<"0">>, <<PairLine(<<"l">>, <<"x">>)>>)
                    \o Section(<<"1">>, <<PairLine(Str("path"), PathE)>>))),
     \* the top-level key mapped to a string
     FileOf(<<PairLine(Str("libraryfolders"), <<"x">>)>>),
     \* a child's path mapped to a section
     FileOf(Section(Str("libraryfolders"),
                Section(<<"0">>, Section(Str("path"), <<>>)))),
     \* no top-level key
     FileOf(<<PairLine(<<"a">>, <<"v">>)>>)}

InitResolve ==
    /\ steam_path \in {None, PyStr(Str("")), PyStr(Root)}
    /\ custom_paths \in SeqsUpTo(PathSamples, MaxCustom)
    /\ fs_exists \in SUBSET PathSamples
    /\ vdf_file \in VdfSamples
    /\ library_folders = <<>>
    /\ rpc = "idle"
    /\ PIdle /\ SIdle /\ MIdle

SpecResolve == InitResolve /\ [][RResolve]_vars

\* ---- scan_games on every listing of manifest files ----

AppState(ls) == FileOf(Section(Str("AppState"), ls))

ManifestSamples ==
    {ReadError,
     AppState(<<PairLine(Str("appid"), <<"1">>), PairLine(Str("name"), <<"A">>),
                PairLine(Str("installdir"), <<"c">>)>>),
     AppState(<<PairLine(Str("appid"), <<"2">>), PairLine(Str("name"), <<"B">>)>>),
     AppState(<<PairLine(Str("appid"), <<"1">>)>>),
     AppState(<<PairLine(Str("name"), <<"A">>)>>),
     AppState(<<PairLine(Str("appid"), <<"1">>), PairLine(Str("name"), <<>>)>>),
     FileOf(<<PairLine(Str("AppState"), <<"x">>)>>),
     FileOf(<<PairLine(<<"a">>, <<"v">>)>>),
     AppState(Section(Str("appid"), <<PairLine(<<"a">>, <<"v">>)>>)
                \o <<PairLine(Str("name"), <<"A">>)>>)}

InitScan ==
    /\ steam_path = PyStr(Root) /\ custom_paths = <<>> /\ fs_exists = {Root, PathE}
    /\ vdf_file = NoFile /\ rpc = "idle"
    /\ library_folders \in {<<>>, <<Root>>, <<Root, PathE>>, <<PathE, Root>>}
    /\ \E fs \in SeqsUpTo(ManifestSamples, MaxFiles),
          other \in {<<>>, <<AppState(<<PairLine(Str("appid"), <<"2">>),
                                       PairLine(Str("name"), <<"B">>)>>)>>},
          present \in BOOLEAN :
          steamapps = [f \in {Root, PathE} |->
                         IF f = Root THEN Dir(fs)
                         ELSE IF present THEN Dir(other) ELSE NoFile]
    /\ fo = 1 /\ manifest_files = <<>> /\ fi = 1 /\ found = <<>> /\ spc = "idle"
    /\ PIdle /\ MIdle

SNext == SBegin \/ SFolder \/ SFile \/ SFilesEnd \/ SReturn
SpecScan == InitScan /\ [][SNext]_vars

\* ---- main on every installation ----

MainVdfSamples ==
    {NoFile,
     FileOf(Section(Str("libraryfolders"),
                Section(<<"0">>, <<PairLine(Str("path"), PathD)>>)
                    \o Section(<<"1">>, <<PairLine(Str("path"), PathE)>>))),
     FileOf(<<PairLine(Str("libraryfolders"), <<"x">>)>>)}

MainManifestSamples ==
    {AppState(<<PairLine(Str("appid"), <<"1">>), PairLine(Str("name"), <<"A">>),
                PairLine(Str("installdir"), <<"c">>)>>),
     AppState(<<PairLine(Str("appid"), <<"1">>)>>),
     FileOf(<<PairLine(Str("AppState"), <<"x">>)>>)}

MainDisks ==
    {NoFile, Corrupt,
     Json(TRUE, <<[apollo_app(GameRecord(NameA, Id1, PyStr(Str(""))), TRUE)
                      EXCEPT !.output = Custom]>>)}

Init ==
    /\ steam_path \in {None, PyStr(Root)}
    /\ custom_paths \in {<<>>, <<PathE>>}
    /\ fs_exists \in {{Root}, {Root, PathE}}
    /\ vdf_file \in MainVdfSamples
    /\ library_folders = <<>>
    /\ rpc = "wait"
    /\ \E fs \in SeqsUpTo(MainManifestSamples, MaxFiles),
          other \in {<<>>, <<AppState(<<PairLine(Str("appid"), <<"2">>),
                                       PairLine(Str("name"), <<"B">>)>>)>>},
          present \in BOOLEAN :
          steamapps = [f \in PathSamples |->
                         IF f = Root THEN Dir(fs)
                         ELSE IF f = PathE /\ present THEN Dir(other) ELSE NoFile]
    /\ fo = 1 /\ manifest_files = <<>> /\ fi = 1 /\ found = <<>> /\ spc = "wait"
    /\ disk \in MainDisks
    /\ config = Json(TRUE, <<>>) /\ existing_names = {}
    /\ games = <<>> /\ enable_vd = TRUE /\ gi = 1 /\ added = 0
    /\ mpc = "wait" /\ loaded = <<>> /\ calls = 0
    /\ reads = 0 /\ writes = 0 /\ load_kind = "none" /\ save_result = "none"
    /\ mainpc = "start"
    /\ PIdle

Next ==
    \/ MainCheckRoot \/ RResolve \/ MainFolders
    \/ SBegin \/ SFolder \/ SFile \/ SFilesEnd \/ SReturn
    \/ MainGames \/ MLoad \/ MGame \/ MSave \/ MainEnd

Spec == Init /\ [][Next]_vars

----------------------------------------------------------------------------
(* Properties of the merge engine *)

IsPrefix(a, b) == Len(a) <= Len(b) /\ SubSeq(b, 1, Len(a)) = a
Apps(file) == IF file.t = "json" /\ file.hasApps THEN file.apps ELSE <<>>
CountName(apps, n) == Cardinality({i \in 1..Len(apps) : apps[i].name = n})
InCall == mpc \in {"loop", "done", "raised"}

\* C1: when add_games has processed its batch, what it holds is merge(C, D),
\* and merging the same batch D into it again (with either display flag)
\* appends nothing and leaves every entry as it is
MergeIdempotent ==
    mpc = "done" =>
        LET r == merge(loaded, games, enable_vd)
        IN /\ r.apps = config.apps
           /\ r.added = added
           /\ \A vd \in BOOLEAN :
                 merge(r.apps, games, vd) = [apps |-> r.apps, added |-> 0]

\* C1 witness: a batch that repeats a name has been merged and added entries
MergeIdempotentWitness ==
    /\ mpc = "done"
    /\ added >= 2
    /\ \E i, j \in 1..Len(games) : i < j /\ games[i].name = games[j].name

\* C2: the entries of the configuration, in memory and on disk, always have
\* pairwise distinct names
NoDuplicateNames ==
    /\ DistinctNames(config.apps)
    /\ DistinctNames(Apps(disk))

\* C3: when a batch holds two records with one name and different
\* identifiers and the name is not in the configuration, the call ends with
\* exactly one entry of that name, which launches the earlier record
FirstWinsInBatch ==
    mpc = "done" =>
        \A i, j \in 1..Len(games) :
            (/\ i < j
             /\ games[i].name = games[j].name
             /\ games[i].app_id # games[j].app_id
             /\ games[i].name \notin ExistingNames(loaded)
             /\ \A m \in 1..(i - 1) : games[m].name # games[i].name)
            => /\ CountName(config.apps, games[i].name) = 1
               /\ \E m \in 1..Len(config.apps) :
                     /\ config.apps[m].name = games[i].name
                     /\ config.apps[m].detached = <<games[i].exe_path>>

\* C4: during and after a call the entries loaded at its start are an
\* unchanged prefix of the entries in memory and of the entries of a readable
\* configuration file
MergeOnlyAppends ==
    InCall =>
        /\ IsPrefix(loaded, config.apps)
        /\ disk.t = "json" => IsPrefix(loaded, Apps(disk))

\* C4 witness: a hand-edited entry was loaded, a record with its name and
\* another identifier was in the batch, and the call appended something
MergeOnlyAppendsWitness ==
    /\ mpc = "done"
    /\ added > 0
    /\ disk = config
    /\ \E i \in 1..Len(loaded), j \in 1..Len(games) :
          /\ loaded[i].name = games[j].name
          /\ loaded[i].output = Custom
          /\ loaded[i].detached # <<games[j].exe_path>>

----------------------------------------------------------------------------
(* Properties of the record extractor *)

\* the top-level section of the manifest supplies the field, non-empty
Supplies(file, field) ==
    LET data == parse_vdf(file).items
    IN /\ HasKey(data, Str("AppState"))
       /\ IsDict(GetItem(data, Str("AppState")))
       /\ HasKey(GetItem(data, Str("AppState")).items, field)
       /\ Truthy(GetItem(GetItem(data, Str("AppState")).items, field))
Field(file, field) == GetItem(GetItem(parse_vdf(file).items, Str("AppState")).items, field)

\* a manifest with a string identifier and a string display-name
WellFormed(file) ==
    /\ Supplies(file, Str("appid")) /\ IsStr(Field(file, Str("appid")))
    /\ Supplies(file, Str("name")) /\ IsStr(Field(file, Str("name")))

RecordOf(file) ==
    GameRecord(Field(file, Str("name")), Field(file, Str("appid")),
               IF Supplies(file, Str("installdir")) THEN Field(file, Str("installdir"))
               ELSE PyStr(Str("")))

RECURSIVE RecordsOfFiles(_)
RecordsOfFiles(files) ==
    IF files = <<>> THEN <<>>
    ELSE (IF WellFormed(Head(files)) THEN <<RecordOf(Head(files))>> ELSE <<>>)
            \o RecordsOfFiles(Tail(files))

RECURSIVE RecordsOfFolders(_)
RecordsOfFolders(folders) ==
    IF folders = <<>> THEN <<>>
    ELSE (IF steamapps[Head(folders)] = NoFile THEN <<>>
          ELSE RecordsOfFiles(steamapps[Head(folders)].files))
            \o RecordsOfFolders(Tail(folders))

RECURSIVE IsSubseq(_, _)
IsSubseq(a, b) ==
    IF a = <<>> THEN TRUE
    ELSE IF b = <<>> THEN FALSE
    ELSE IF Head(a) = Head(b) THEN IsSubseq(Tail(a), Tail(b))
    ELSE IsSubseq(a, Tail(b))

\* C5: whatever the manifest files hold, scan_games raises nothing, and what
\* it returns holds the records of all the well-formed files, in order
ScanNeverAborts ==
    /\ spc # "raised"
    /\ spc = "done" => IsSubseq(RecordsOfFolders(library_folders), found)

\* C6: a manifest file yields a record exactly when its top-level section
\* supplies a non-empty appid and a non-empty name, and the record carries
\* the two values read
IncompleteDiscarded ==
    [][(/\ spc = "files" /\ fi <= Len(manifest_files)
        /\ (fi' = fi + 1 \/ spc' = "raised"))
       => LET file == manifest_files[fi]
          IN /\ (found' # found) <=>
                    (Supplies(file, Str("appid")) /\ Supplies(file, Str("name")))
             /\ found' # found =>
                    /\ found'[Len(found')].app_id = Field(file, Str("appid"))
                    /\ found'[Len(found')].name = Field(file, Str("name"))]_vars

RECURSIVE FreshEntries(_, _, _)
\* the entries of the records gs, one for each name not in seen and not met
\* earlier in gs
FreshEntries(gs, seen, vd) ==
    IF gs = <<>> THEN <<>>
    ELSE IF Head(gs).name \in seen
         THEN FreshEntries(Tail(gs), seen, vd)
         ELSE <<apollo_app(Head(gs), vd)>>
                  \o FreshEntries(Tail(gs), seen \cup {Head(gs).name}, vd)

\* C13: when the configuration file exists but cannot be decoded, load_apps
\* yields the empty configuration, add_games goes on to process its records,
\* and the configuration it persists holds exactly one entry for each name
\* among the records and nothing else
ReadFailureStartsFresh ==
    (InCall /\ load_kind = "corrupt") =>
        /\ loaded = <<>>
        /\ mpc = "raised" => save_result = "makedirs_raises"
        /\ (gi > Len(games)) =>
              config = Json(TRUE, FreshEntries(games, {}, enable_vd))
        /\ save_result = "ok" =>
              disk = Json(TRUE, FreshEntries(games, {}, enable_vd))

\* C14: a save_apps that fails (creating the directory, opening the file or
\* serialising) leaves the configuration file with the contents it had, and a
\* file that holds a valid configuration never becomes empty or partial
WriteAllOrNothing ==
    [][/\ (save_result' # save_result /\ save_result' \notin {"none", "ok"}) =>
              disk' = disk
       /\ disk.t = "json" => disk'.t = "json"]_vars

\* the games[1..n] whose name was not in the configuration when it was loaded
Appended(n) ==
    SelectSeq(SubSeq(games, 1, n), LAMBDA g : g.name \notin ExistingNames(loaded))

\* C15: every entry add_games appends has the record's name, empty output,
\* cmd and image-path, a launch list of exactly one element, the record's
\* steam://rungameid/<identifier>, and the virtual-display flag true when
\* enable_virtual_display is true and absent otherwise; the added count is
\* the length of the updated list minus the length of the existing one
AppendedEntryShape ==
    (mpc \in {"loop", "done"}) =>
        LET src == Appended(gi - 1)
        IN /\ added = Len(config.apps) - Len(loaded)
           /\ added = Len(src)
           /\ \A k \in 1..added :
                 LET e == config.apps[Len(loaded) + k]
                 IN /\ e.name = src[k].name
                    /\ e.output = PyStr(<<>>)
                    /\ e.cmd = PyStr(<<>>)
                    /\ e.image_path = PyStr(<<>>)
                    /\ Len(e.detached) = 1
                    /\ e.detached[1] =
                          PyStr(Str("steam://rungameid/") \o src[k].app_id.s)
                    /\ e.virtual_display = (IF enable_vd THEN PyTrue ELSE None)

\* C15 witness: a call without the virtual-display flag has appended two
\* entries to a configuration that held some
AppendedEntryShapeWitness ==
    /\ mpc = "done"
    /\ ~enable_vd
    /\ loaded # <<>>
    /\ added = 2

\* what C16 says of one step and of the state it leaves, given the number of
\* reads a finished load must have made
FileAccessOrder(readsAfterLoad) ==
    /\ InCall => reads = readsAfterLoad
    /\ (mpc = "load") => (reads = 0 /\ writes = 0)
    /\ writes \in {0, 1}
    /\ (writes = 1) => (mpc \in {"done", "raised"} /\ gi > Len(games) /\ added > 0)
    /\ (mpc \in {"done", "raised"} /\ added = 0) => (writes = 0 /\ save_result = "none")

\* the file changes only in the step that writes it, and a call that appended
\* nothing leaves it as it is
FileAccessSteps ==
    /\ (reads' # reads /\ reads' # 0) => (mpc = "load" /\ mpc' = "loop" /\ gi' = 1)
    /\ (writes' # writes /\ writes' # 0) =>
          (mpc = "loop" /\ gi > Len(games) /\ mpc' = "done")
    /\ disk' # disk => writes' = writes + 1
    /\ (mpc = "loop" /\ mpc' = "done" /\ added = 0) => disk' = disk

\* C16 as stated: in every add_games call the configuration file is read
\* exactly once, before any record is processed, and written at most once,
\* after all records have been processed; a call that appended nothing does
\* not write the file and leaves its contents unchanged
ReadOnceThenWrite ==
    [](FileAccessOrder(1)) /\ [][FileAccessSteps]_vars

\* C16 amended: the file is read at most once, exactly once when it exists and
\* not at all when it does not exist, before any record is processed; it is
\* written at most once, after all records have been processed; a call that
\* appended nothing does not write the file and leaves its contents unchanged
ReadAtMostOnceThenWrite ==
    [](FileAccessOrder(IF load_kind = "nofile" THEN 0 ELSE 1))
        /\ [][FileAccessSteps]_vars

\* C16 witness: a call has read an existing file, appended an entry and
\* written the file once
ReadAtMostOnceThenWriteWitness ==
    /\ mpc = "done"
    /\ load_kind = "json"
    /\ reads = 1 /\ writes = 1
    /\ added > 0
    /\ disk = config

----------------------------------------------------------------------------
(* Properties of the library resolver *)

\* C9: get_library_folders raises no error, whatever the root, the explicit
\* paths and the library-manifest file are
ResolverNeverRaises == rpc # "raised"

Range(q) == {q[i] : i \in 1..Len(q)}

\* C10: with explicit paths given, get_library_folders ends normally and its
\* result is exactly the explicit paths that exist, in input order; the root
\* and the paths of the library-manifest file are in it only as explicit paths
ExplicitPathsExclusive ==
    custom_paths # <<>> =>
        /\ rpc # "raised"
        /\ rpc = "done" =>
              LET idx == {i \in 1..Len(custom_paths) : custom_paths[i] \in fs_exists}
              IN /\ Len(library_folders) = Cardinality(idx)
                 /\ \E f \in [1..Len(library_folders) -> idx] :
                       /\ \A a, b \in 1..Len(library_folders) : a < b => f[a] < f[b]
                       /\ \A a \in 1..Len(library_folders) :
                             library_folders[a] = custom_paths[f[a]]
                 /\ \A p \in {Root, PathDNorm, PathE} \ Range(custom_paths) :
                       p \notin Range(library_folders)

\* C10 witness: every explicit path is missing, a root and a library-manifest
\* file with libraries are there, and the result is empty
ExplicitPathsExclusiveWitness ==
    /\ rpc = "done"
    /\ custom_paths # <<>>
    /\ Range(custom_paths) \cap fs_exists = {}
    /\ steam_path = PyStr(Root)
    /\ vdf_file.t = "text"
    /\ HasKey(parse_vdf(vdf_file).items, Str("libraryfolders"))
    /\ library_folders = <<>>

RECURSIVE ChildPathValues(_)
\* the 'path' value of each child that is a section with a 'path' field, in
\* the order of the children; a string value with its doubled separators
\* made single, as the resolver's policy says
ChildPathValues(items) ==
    IF items = <<>> THEN <<>>
    ELSE LET value == Head(items).v
             rest == ChildPathValues(Tail(items))
         IN IF IsDict(value) /\ HasKey(value.items, Str("path"))
            THEN LET p == GetItem(value.items, Str("path"))
                 IN <<IF IsStr(p) THEN PyStr(ReplaceDoubled(p.s)) ELSE p>> \o rest
            ELSE rest

\* the child entries of the library-manifest's top-level section
TopLevelChildren(vdf) ==
    IF vdf = NoFile THEN <<>>
    ELSE LET data == parse_vdf(vdf).items
         IN IF HasKey(data, Str("libraryfolders"))
                /\ IsDict(GetItem(data, Str("libraryfolders")))
            THEN GetItem(data, Str("libraryfolders")).items
            ELSE <<>>

\* C11: with no explicit paths, get_library_folders returns; with a root its
\* result is the root followed by the 'path' value of every child section of
\* the library-manifest's top-level section that has one, in the manifest's
\* order, and without a root its result is empty
DefaultModeOrdering ==
    custom_paths = <<>> =>
        /\ rpc # "raised"
        /\ rpc = "done" =>
              IF Truthy(steam_path)
              THEN LET want == <<steam_path>> \o ChildPathValues(TopLevelChildren(vdf_file))
                   IN /\ Len(library_folders) = Len(want)
                      /\ \A i \in 1..Len(want) : PyStr(library_folders[i]) = want[i]
              ELSE library_folders = <<>>

----------------------------------------------------------------------------
(* Properties of main *)

\* the configuration file has been neither read nor written, add_games has
\* not been called and no exception has ended main
ConfigUntouched ==
    /\ reads = 0 /\ writes = 0
    /\ load_kind = "none" /\ save_result = "none"
    /\ mpc = "wait"
    /\ mainpc \notin {"add", "raised"}

\* C12: a run of main in which the root locator returned nothing and no
\* explicit path was given, or the resolved library list is empty, or the scan
\* discovered no record, returns normally and never reads or writes the
\* configuration file
UnavailableRootNoWrites ==
    /\ (custom_paths = <<>> /\ ~Truthy(steam_path)) =>
          ConfigUntouched /\ mainpc \in {"start", "returned"}
    /\ (rpc = "done" /\ library_folders = <<>>) =>
          ConfigUntouched /\ mainpc \in {"resolve", "returned"}
    /\ (spc = "done" /\ found = <<>>) =>
          ConfigUntouched /\ mainpc \in {"scan", "returned"}

\* C12 witness: main has returned without a root and without explicit paths
\* while a configuration file with an entry is on disk
UnavailableRootNoWritesWitness ==
    /\ mainpc = "returned"
    /\ steam_path = None /\ custom_paths = <<>>
    /\ disk.t = "json" /\ disk.apps # <<>>
    /\ rpc = "wait" /\ spc = "wait" /\ mpc = "wait"

----------------------------------------------------------------------------
(* Properties of the parser *)

IsSkipped(l) == l = <<>> \/ StartsWithComment(l)
IsBrace(l) == l = Str("{") \/ l = Str("}")
\* a line with exactly two quoted substrings
IsPairLine(l) == ~IsSkipped(l) /\ ~IsBrace(l) /\ Len(FindAll(l)) = 2

\* C7: on every line sequence each step of parse_vdf consumes one line or
\* returns after the last one (no step raises); the root section stays at the
\* bottom of a non-empty stack; a line with two quoted substrings stores its
\* value under its key in the section on top of the stack; and a stored pair
\* changes only when a later line writes its key in its section
ParserTolerant ==
    /\ [](ppc \in {"loop", "done"} =>
            /\ Len(stack) >= 1 /\ stack[1] = 1 /\ Len(heap) >= 1
            /\ li <= Len(lines) + 1)
    /\ [][ppc = "loop" =>
            \/ li <= Len(lines) /\ li' = li + 1 /\ ppc' = "loop"
            \/ li = Len(lines) + 1 /\ li' = li /\ ppc' = "done" /\ heap' = heap]_vars
    /\ [][(ppc = "loop" /\ li' = li + 1 /\ Len(stack) >= 1) =>
            LET l == Strip(lines[li])
                top == stack[Len(stack)]
            IN /\ Len(heap') >= Len(heap)
               /\ IsPairLine(l) =>
                     /\ HasKey(heap'[top], FindAll(l)[1])
                     /\ GetItem(heap'[top], FindAll(l)[1]) = PyStr(FindAll(l)[2])
               /\ \A s \in 1..Len(heap) : \A k \in Keys(heap[s]) :
                     \/ /\ HasKey(heap'[s], k)
                        /\ GetItem(heap'[s], k) = GetItem(heap[s], k)
                     \/ s = top /\ IsPairLine(l) /\ k = FindAll(l)[1]
                     \/ s = top /\ l = Str("{") /\ current_key = PyStr(k)]_vars

\* C7 witness: the text began with an unmatched closing brace, ended with a
\* key that no value or section follows, and a pair of it is in the result
ParserTolerantWitness ==
    /\ ppc = "done"
    /\ Len(lines) >= 3
    /\ Strip(lines[1]) = Str("}")
    /\ Len(FindAll(Strip(lines[Len(lines)]))) = 1
    /\ \E i \in 1..Len(lines) : IsPairLine(Strip(lines[i]))
    /\ result.items # <<>>

\* C17: while parse_vdf processes a line sequence the stack has depth at
\* least 1 and its bottom element is the root section, the one returned; a
\* closing brace at depth 1 leaves the stack as it is, and a closing brace at
\* a greater depth removes exactly the top element
RootNeverPopped ==
    /\ [](ppc \in {"loop", "done"} =>
            /\ Len(stack) >= 1
            /\ stack[1] = 1
            /\ result = Freeze(heap, stack[1]))
    /\ [][(ppc = "loop" /\ li' = li + 1 /\ Strip(lines[li]) = Str("}")) =>
            /\ IF Len(stack) <= 1
               THEN stack' = stack
               ELSE stack' = SubSeq(stack, 1, Len(stack) - 1)
            /\ heap' = heap
            /\ current_key' = current_key]_vars

\* C17 witness: the text began with a closing brace at depth 1, a section was
\* opened and closed later, and the parser has returned with the root alone
\* on the stack
RootNeverPoppedWitness ==
    /\ ppc = "done"
    /\ Len(lines) = 4
    /\ Strip(lines[1]) = Str("}")
    /\ Len(FindAll(Strip(lines[2]))) = 1
    /\ Strip(lines[3]) = Str("{")
    /\ Strip(lines[4]) = Str("}")
    /\ Len(heap) = 2
    /\ stack = <<1>>

\* a line with exactly one quoted substring
IsKeyLine(l) == ~IsSkipped(l) /\ ~IsBrace(l) /\ Len(FindAll(l)) = 1

\* what C18 says of the step on line l when `pending` tells whether a key is
\* registered
OpenBraceSteps(l, pending) ==
    /\ IsKeyLine(l) => current_key' = PyStr(FindAll(l)[1])
    /\ (l = Str("{") /\ pending) =>
          LET new == Len(heap) + 1
              top == stack[Len(stack)]
          IN /\ Len(heap') = new
             /\ heap'[new] = <<>>
             /\ HasKey(heap'[top], current_key.s)
             /\ GetItem(heap'[top], current_key.s) = Ref(new)
             /\ \A s \in 1..Len(heap) : s # top => heap'[s] = heap[s]
             /\ stack' = Append(stack, new)
             /\ current_key' = None
    /\ (l = Str("{") /\ ~pending) => UNCHANGED <<stack, heap, current_key>>
    /\ current_key' # current_key => (IsKeyLine(l) \/ (l = Str("{") /\ pending))

\* C18: once a line with exactly one quoted substring has registered a
\* pending key, whatever the quoted string (the empty string included), the
\* next opening brace creates a new empty section, stores it under that key in
\* the section on top of the stack, pushes it and clears the pending key; an
\* opening brace with no pending key changes neither the stack nor a section;
\* nothing but a one-substring line and an accepted opening brace changes the
\* pending key
OpeningBraceStep ==
    [][(ppc = "loop" /\ li' = li + 1) =>
          OpenBraceSteps(Strip(lines[li]), current_key # None)]_vars

\* the keys of a dict object are pairwise distinct
UniqueKeys(items) ==
    \A i, j \in 1..Len(items) : i # j => items[i].k # items[j].k

\* C19: each key of a section maps to exactly one node, the one produced by
\* the last line that wrote the key in that section: a pair line leaves its
\* string under the key, an accepted opening brace leaves a new empty section
\* under the key (the section the key held before is not reopened), a node
\* stays until a line writes its key in its section again, and only the
\* written key is new
LastWriteWins ==
    /\ [](ppc \in {"loop", "done"} =>
            /\ \A s \in 1..Len(heap) : UniqueKeys(heap[s])
            /\ result = Freeze(heap, 1))
    /\ [][(ppc = "loop" /\ li' = li + 1) =>
            LET l == Strip(lines[li])
                top == stack[Len(stack)]
                opens == l = Str("{") /\ Truthy(current_key)
            IN /\ IsPairLine(l) =>
                     /\ GetItem(heap'[top], FindAll(l)[1]) = PyStr(FindAll(l)[2])
                     /\ Len(heap') = Len(heap)
               /\ opens =>
                     /\ Len(heap') = Len(heap) + 1
                     /\ GetItem(heap'[top], current_key.s) = Ref(Len(heap'))
                     /\ heap'[Len(heap')] = <<>>
                     /\ stack'[Len(stack')] = Len(heap')
               /\ (~IsPairLine(l) /\ ~opens) => heap' = heap
               /\ \A s \in 1..Len(heap) :
                     /\ \A k \in Keys(heap[s]) :
                           \/ /\ HasKey(heap'[s], k)
                              /\ GetItem(heap'[s], k) = GetItem(heap[s], k)
                           \/ s = top /\ IsPairLine(l) /\ k = FindAll(l)[1]
                           \/ s = top /\ opens /\ k = current_key.s
                     /\ \A k \in Keys(heap'[s]) :
                           \/ HasKey(heap[s], k)
                           \/ s = top /\ IsPairLine(l) /\ k = FindAll(l)[1]
                           \/ s = top /\ opens /\ k = current_key.s]_vars

\* C19 witness: a key was opened as a section that received a pair, closed,
\* and opened as a section again; the result maps the key to the second,
\* empty section
LastWriteWinsWitness ==
    /\ ppc = "done"
    /\ Len(lines) = 6
    /\ Strip(lines[1]) = KeyLine(<<"a">>) /\ Strip(lines[2]) = Str("{")
    /\ IsPairLine(Strip(lines[3])) /\ Strip(lines[4]) = Str("}")
    /\ Strip(lines[5]) = KeyLine(<<"a">>) /\ Strip(lines[6]) = Str("{")
    /\ result = PyDict(<<[k |-> <<"a">>, v |-> PyDict(<<>>)]>>)

\* C8: the text written from a tree, with blank and comment lines anywhere,
\* parses to a structure equal to the tree
RoundTrip == ppc = "done" => PyEq(result, tree)

====
